---- MODULE Spec2Model ----
(***************************************************************************)
(* Model of src/build.py, a static site builder: a module-level script     *)
(* that cleans the output directory, runs a leftover "example build" loop, *)
(* cleans the output directory again, looks up the layout template,        *)
(* discovers and routes every content file (parse phase), writes every     *)
(* real page, and finally writes a synthetic listing for every section     *)
(* that has no _index.md.                                                  *)
(*                                                                         *)
(* Text is modelled as a sequence of one-character strings, a path as a    *)
(* sequence of names (each name a text), the output tree as a function     *)
(* from output file path to the document written there.                    *)
(***************************************************************************)
EXTENDS Integers, Sequences, FiniteSets, TLC

----------------------------------------------------------------------------
(* Bounds of the model *)

\* Largest number of content files in a content tree.
MaxFiles == 3
\* Deepest directory nesting of a path handed to the router on its own.
MaxDepth == 3
\* Longest raw document, in tokens, handed to the document loader on its own.
MaxTokens == 4

----------------------------------------------------------------------------
(* Text *)

\* The characters of the model in code point order (str comparison in
\* Python is by code point).
CodePoints ==
    << " ", "-", ".", "/",
       "A", "B", "C", "D", "E", "F", "G", "H", "I", "J", "K", "L", "M",
       "N", "O", "P", "Q", "R", "S", "T", "U", "V", "W", "X", "Y", "Z",
       "_",
       "a", "b", "c", "d", "e", "f", "g", "h", "i", "j", "k", "l", "m",
       "n", "o", "p", "q", "r", "s", "t", "u", "v", "w", "x", "y", "z" >>

UpperCase == SubSeq(CodePoints, 5, 30)
LowerCase == SubSeq(CodePoints, 32, 57)

Ord(c) == CHOOSE i \in 1..Len(CodePoints) : CodePoints[i] = c

IsUpper(c) == \E i \in 1..Len(UpperCase) : UpperCase[i] = c
IsLower(c) == \E i \in 1..Len(LowerCase) : LowerCase[i] = c
IsCased(c) == IsUpper(c) \/ IsLower(c)

ToUpper(c) ==
    IF IsLower(c)
    THEN UpperCase[CHOOSE i \in 1..Len(LowerCase) : LowerCase[i] = c]
    ELSE c

ToLower(c) ==
    IF IsUpper(c)
    THEN LowerCase[CHOOSE i \in 1..Len(UpperCase) : UpperCase[i] = c]
    ELSE c

\* str.replace("-", " ")
ReplaceHyphens(s) == [i \in 1..Len(s) |-> IF s[i] = "-" THEN " " ELSE s[i]]

\* str.title(): a cased character is upper-cased when the character before
\* it is not cased, lower-cased otherwise; other characters are kept.
RECURSIVE TitleFrom(_, _, _)
TitleFrom(s, i, previous_is_cased) ==
    IF i > Len(s) THEN <<>>
    ELSE IF IsCased(s[i])
         THEN << (IF previous_is_cased THEN ToLower(s[i]) ELSE ToUpper(s[i])) >>
              \o TitleFrom(s, i + 1, TRUE)
         ELSE << s[i] >> \o TitleFrom(s, i + 1, FALSE)

Title(s) == TitleFrom(s, 1, FALSE)

\* a < b for str: the first differing character decides, a proper prefix
\* is smaller.
RECURSIVE StrLess(_, _)
StrLess(a, b) ==
    IF b = <<>> THEN FALSE
    ELSE IF a = <<>> THEN TRUE
    ELSE IF Head(a) = Head(b) THEN StrLess(Tail(a), Tail(b))
    ELSE Ord(Head(a)) < Ord(Head(b))

----------------------------------------------------------------------------
(* Paths *)

IndexMd == << "_", "i", "n", "d", "e", "x", ".", "m", "d" >>
IndexHtml == << "i", "n", "d", "e", "x", ".", "h", "t", "m", "l" >>
DotHtml == << ".", "h", "t", "m", "l" >>
DotMd == << ".", "m", "d" >>

\* PurePath.parent and PurePath.name of a relative path
Parent(p) == SubSeq(p, 1, Len(p) - 1)
Name(p) == p[Len(p)]

\* Suffix, were it taken from the first dot instead of the last
SuffixFromFirstDot(name) ==
    LET dots == {i \in 1..Len(name) : name[i] = "."}
    IN  IF dots = {} THEN <<>>
        ELSE LET j == CHOOSE i \in dots : \A k \in dots : i <= k
             IN  IF 1 < j /\ j < Len(name)
                 THEN SubSeq(name, j, Len(name))
                 ELSE <<>>

\* PurePath.suffix of a name: from the last dot, unless that dot is the
\* first or the last character.
Suffix(name) ==
    LET dots == {i \in 1..Len(name) : name[i] = "."}
    IN  IF dots = {} THEN <<>>
        ELSE LET j == CHOOSE i \in dots : \A k \in dots : k <= i
             IN  IF 1 < j /\ j < Len(name)
                 THEN SubSeq(name, j, Len(name))
                 ELSE <<>>

\* PurePath.stem
Stem(name) == SubSeq(name, 1, Len(name) - Len(Suffix(name)))

\* PurePath.with_suffix(s)
WithSuffix(p, s) == Parent(p) \o << Stem(Name(p)) \o s >>

\* The with_suffix("") of the leaf routing rule; "" leaves a bare stem.
StripSuffix(p) == WithSuffix(p, <<>>)

\* str(path) on a POSIX host: the names joined by "/", "." for the empty path
RECURSIVE JoinNames(_)
JoinNames(p) ==
    IF p = <<>> THEN <<>>
    ELSE IF Len(p) = 1 THEN p[1]
    ELSE p[1] \o << "/" >> \o JoinNames(Tail(p))

PathStr(p) == IF p = <<>> THEN << "." >> ELSE JoinNames(p)

----------------------------------------------------------------------------
(* Values of the metadata block (what yaml.safe_load can hand back for a   *)
(* key) and raw documents                                                  *)

StrVal(s) == [t |-> "str", v |-> s]
NoneVal == [t |-> "none", v |-> <<>>]
IntVal == [t |-> "int", v |-> << "7" >>]

IsStr(x) == x.t = "str"

\* str(x), as an f-string or the template formats a value
Str(x) == IF x.t = "none" THEN << "N", "o", "n", "e" >> ELSE x.v

\* A raw document is a sequence of tokens: the three-character delimiter,
\* whitespace, a line of prose, a line that is not YAML, or one
\* "key: value" line of a YAML mapping.
Delim == [tok |-> "---", key |-> "", val |-> NoneVal]
Ws == [tok |-> "ws", key |-> "", val |-> NoneVal]
Text == [tok |-> "text", key |-> "", val |-> NoneVal]
Bad == [tok |-> "bad", key |-> "", val |-> NoneVal]
Entry(k, x) == [tok |-> "entry", key |-> k, val |-> x]

\* str.lstrip()
RECURSIVE LStrip(_)
LStrip(raw) ==
    IF raw # <<>> /\ Head(raw) = Ws THEN LStrip(Tail(raw)) ELSE raw

\* str.startswith("---")
StartsWithDelim(raw) == raw # <<>> /\ Head(raw) = Delim

\* raw.split("---", 2): at most two splits, so at most three parts
DelimPositions(raw) == {i \in 1..Len(raw) : raw[i] = Delim}
MinOf(S) == CHOOSE i \in S : \A k \in S : i <= k

Split2(raw) ==
    LET ds == DelimPositions(raw)
    IN  IF ds = {} THEN << raw >>
        ELSE LET d1 == MinOf(ds)
                 rest == ds \ {d1}
             IN  IF rest = {}
                 THEN << SubSeq(raw, 1, d1 - 1), SubSeq(raw, d1 + 1, Len(raw)) >>
                 ELSE LET d2 == MinOf(rest)
                      IN  << SubSeq(raw, 1, d1 - 1),
                             SubSeq(raw, d1 + 1, d2 - 1),
                             SubSeq(raw, d2 + 1, Len(raw)) >>

\* yaml.safe_load(fm): raises on text that is not YAML and on prose mixed
\* into a mapping; an empty document is None, prose alone a str scalar,
\* "key: value" lines a mapping in which a repeated key keeps its last value.
Loaded(kind, map) == [kind |-> kind, map |-> map]

SafeLoad(fm) ==
    LET toks == {fm[i] : i \in 1..Len(fm)} \ {Ws}
        entries == {i \in 1..Len(fm) : fm[i].tok = "entry"}
        keys == {fm[i].key : i \in entries}
        last(k) == CHOOSE i \in entries :
                      /\ fm[i].key = k
                      /\ \A j \in entries : fm[j].key = k => j <= i
    IN  IF toks = {} THEN Loaded("none", <<>>)
        ELSE IF Bad \in toks THEN Loaded("raise", <<>>)
        ELSE IF Text \in toks
             THEN IF entries = {} THEN Loaded("scalar", <<>>)
                                  ELSE Loaded("raise", <<>>)
             ELSE Loaded("mapping", [k \in keys |-> fm[last(k)].val])

\* "yaml.safe_load(fm) or {}": None (like every falsy value) becomes {}
OrEmpty(x) == IF x.kind = "none" THEN Loaded("mapping", <<>>) ELSE x

\* md.convert(body): the renderer is an external collaborator, its result
\* is the fragment made from exactly this body
Convert(body) == [kind |-> "markdown", body |-> body, heading |-> <<>>, items |-> <<>>]

\* parse_markdown: (frontmatter, html); frontmatter.kind = "raise" stands
\* for the yaml.YAMLError that leaves the function
parse_markdown(raw) ==
    LET parts == Split2(raw)
        hasBlock == StartsWithDelim(LStrip(raw)) /\ Len(parts) = 3
        frontmatter == IF hasBlock THEN OrEmpty(SafeLoad(parts[2]))
                                   ELSE Loaded("mapping", <<>>)
        body == IF hasBlock THEN parts[3] ELSE raw
    IN  [frontmatter |-> frontmatter, html |-> Convert(body)]

\* title_from_path
title_from_path(path) == Title(ReplaceHyphens(Stem(Name(path))))

----------------------------------------------------------------------------
(* Router and page assembly *)

\* Route, were the section index rule missing: S/_index.md routed as a leaf
RouteIndexAsLeaf(rel) ==
    IF rel = << IndexMd >>
    THEN [output_dir |-> <<>>, url |-> << "/" >>]
    ELSE [output_dir |-> StripSuffix(rel),
          url |-> << "/" >> \o PathStr(StripSuffix(rel)) \o << "/" >>]

\* The routing rules: the output directory (its components below DIST_DIR)
\* and the URL of a relative content path.
Route(rel) ==
    LET section == Parent(rel)
    IN  IF rel = << IndexMd >>
        THEN [output_dir |-> <<>>, url |-> << "/" >>]
        ELSE IF Name(rel) = IndexMd
        THEN [output_dir |-> section,
              url |-> << "/" >> \o PathStr(section) \o << "/" >>]
        ELSE [output_dir |-> StripSuffix(rel),
              url |-> << "/" >> \o PathStr(StripSuffix(rel)) \o << "/" >>]

\* dict.get(key, default) on the front matter
Get(map, key, default) == IF key \in DOMAIN map THEN map[key] ELSE default

\* One iteration of the parse loop up to Page(...): the Page, or the
\* exception that ends the build (YAMLError out of parse_markdown,
\* AttributeError from .get on front matter that is not a mapping).
MakePage(rel, raw) ==
    LET parsed == parse_markdown(raw)
        fm == parsed.frontmatter
        r == Route(rel)
        none == [source |-> rel, output_dir |-> <<>>, url |-> <<>>,
                 title |-> NoneVal, description |-> NoneVal,
                 content_html |-> parsed.html, section |-> Parent(rel)]
    IN  IF fm.kind = "raise" THEN [raised |-> "YAMLError", page |-> none]
        ELSE IF fm.kind # "mapping" THEN [raised |-> "AttributeError", page |-> none]
        ELSE [raised |-> "",
              page |-> [source |-> rel,
                        output_dir |-> r.output_dir,
                        url |-> r.url,
                        title |-> Get(fm.map, "title", StrVal(title_from_path(rel))),
                        description |-> Get(fm.map, "description", StrVal(<<>>)),
                        content_html |-> parsed.html,
                        section |-> Parent(rel)]]

\* template.render(title=, description=, content=): the layout is an
\* external collaborator; the document is determined by the three values,
\* title and description formatted as text.
Render(title, description, content) ==
    [title |-> Str(title), description |-> Str(description), content |-> content]

----------------------------------------------------------------------------
(* The build script: state *)

VARIABLES
    content,         \* the content tree: relative path of each *.md file |-> its raw text
    templateExists,  \* whether templates/default.html can be found
    pc,              \* where the script is
    scanned,         \* the files the running glob has yielded so far
    scanDir,         \* the directory the running glob yielded from last
    pages,           \* pages: list[Page]
    sections,        \* sections: dict[Path, list[Page]], in insertion order
    i,               \* position of the running emit or synthetic loop
    dist,            \* the files under DIST_DIR: output path |-> document
    writes,          \* history: output path |-> who wrote it in this build, in order
    run,             \* 1 for the first build of the content tree, 2 for the second
    prevDist,        \* the output tree the first build left
    rel,             \* router on its own: the relative path
    routed,          \* router on its own: <<>> or <<the route of rel>>
    raw,             \* loader on its own: the raw document
    loaded           \* loader on its own: <<>> or <<the result of assembling raw>>

vars == << content, templateExists, pc, scanned, scanDir, pages, sections, i,
           dist, writes, run, prevDist, rel, routed, raw, loaded >>

aloneVars == << rel, routed, raw, loaded >>

buildVars == << content, templateExists, pc, scanned, scanDir, pages, sections,
                i, dist, writes, run, prevDist >>

\* Names of the content trees of the model
Blog == << "b", "l", "o", "g" >>
MyDocs == << "m", "y", "-", "d", "o", "c", "s" >>
BlogMd == Blog \o DotMd
PostOneMd == << "p", "o", "s", "t", "-", "o", "n", "e" >> \o DotMd
AMd == << "a" >> \o DotMd
BMd == << "b" >> \o DotMd
ABMd == << "a", ".", "b" >> \o DotMd

\* The places a content file can be at. blog.md lies beside the directory
\* blog; blog/my-docs is a nested section, my-docs a sibling of blog.
ContentPaths ==
    { << IndexMd >>, << BlogMd >>,
      << Blog, IndexMd >>, << Blog, PostOneMd >>, << Blog, AMd >>,
      << Blog, MyDocs, AMd >>, << MyDocs, BMd >> }

\* The raw texts of the content trees: no metadata block, or a block giving
\* the title "A" and the description "D".
PipelineRaws ==
    { << Text >>,
      << Delim, Entry("title", StrVal(<< "A" >>)),
         Entry("description", StrVal(<< "D" >>)), Delim, Text >> }

ContentTrees ==
    UNION { [T -> PipelineRaws] :
              T \in {S \in SUBSET ContentPaths : Cardinality(S) <= MaxFiles} }

Files == DOMAIN content

IsProperPrefix(d, e) == Len(d) < Len(e) /\ SubSeq(e, 1, Len(d)) = d

\* CONTENT_DIR.glob("**/*.md") and CONTENT_DIR.rglob("*.md"): pathlib lists
\* a directory, yields its matching files together (in the order the file
\* system lists them) and only then descends, so a file comes after every
\* file of the directories above it. f can be the next file yielded:
GlobNext(f) ==
    LET left == Files \ scanned
    IN  /\ f \in left
        /\ IF \E g \in left : Parent(g) = scanDir
           THEN Parent(f) = scanDir
           ELSE \A g \in left : ~IsProperPrefix(Parent(g), Parent(f))

\* GlobExhausted, were the traversal not recursive: the loop ends once the
\* files directly under CONTENT_DIR have been yielded
TopLevelExhausted == \A f \in Files \ scanned : Parent(f) # <<>>

\* The glob is exhausted: the for loop ends
GlobExhausted == scanned = Files

\* Path.write_text: the file holds the document, whatever it held
WriteFile(fs, path, doc) ==
    [q \in DOMAIN fs \cup {path} |-> IF q = path THEN doc ELSE fs[q]]

Logged(log, path, who) ==
    [q \in DOMAIN log \cup {path} |->
        IF q = path
        THEN (IF path \in DOMAIN log THEN log[path] ELSE <<>>) \o << who >>
        ELSE log[q]]

Producer(by, source) == [by |-> by, source |-> source]

InitBuild ==
    /\ content \in ContentTrees
    /\ templateExists \in BOOLEAN
    /\ pc = "start"
    /\ scanned = {}
    /\ scanDir = <<>>
    /\ pages = <<>>
    /\ sections = <<>>
    /\ i = 1
    /\ dist = <<>>
    /\ writes = <<>>
    /\ run = 1
    /\ prevDist = <<>>

IdleAlone ==
    /\ rel = <<>>
    /\ routed = <<>>
    /\ raw = <<>>
    /\ loaded = <<>>

Init == InitBuild /\ IdleAlone

----------------------------------------------------------------------------
(* The build script: steps *)

\* "Ensure DIST_DIR exists": rmtree, mkdir
CleanOutput ==
    /\ pc = "start"
    /\ dist' = <<>>
    /\ scanned' = {}
    /\ scanDir' = <<>>
    /\ pc' = "example"
    /\ UNCHANGED << aloneVars, content, templateExists, pages, sections, i, writes, run, prevDist >>

\* One iteration of the "example build logic" loop
ExampleWrite(md_file) ==
    /\ pc = "example"
    /\ GlobNext(md_file)
    /\ LET out_file == WithSuffix(md_file, DotHtml)
           html == [title |-> <<>>, description |-> <<>>,
                    content |-> [kind |-> "example", body |-> <<>>,
                                 heading |-> Stem(Name(md_file)), items |-> <<>>]]
       IN  /\ dist' = WriteFile(dist, out_file, html)
           /\ writes' = Logged(writes, out_file, Producer("example", md_file))
    /\ scanned' = scanned \cup {md_file}
    /\ scanDir' = Parent(md_file)
    /\ UNCHANGED << aloneVars, content, templateExists, pc, pages, sections, i, run, prevDist >>

\* The example loop ends
ExampleEnd ==
    /\ pc = "example"
    /\ GlobExhausted
    /\ pc' = "setup"
    /\ UNCHANGED << aloneVars, content, templateExists, scanned, scanDir, pages, sections, i,
                    dist, writes, run, prevDist >>

\* Setup: clean the output directory again, then env.get_template, which
\* raises TemplateNotFound when the layout is missing
Setup ==
    /\ pc = "setup"
    /\ dist' = <<>>
    /\ pc' = IF templateExists THEN "parse" ELSE "template_failed"
    /\ scanned' = {}
    /\ scanDir' = <<>>
    /\ UNCHANGED << aloneVars, content, templateExists, pages, sections, i, writes, run, prevDist >>

\* sections.setdefault(section, []).append(page)
SetDefaultAppend(secs, section, page) ==
    IF \E k \in 1..Len(secs) : secs[k].section = section
    THEN [k \in 1..Len(secs) |->
            IF secs[k].section = section
            THEN [secs[k] EXCEPT !.pages = Append(@, page)]
            ELSE secs[k]]
    ELSE Append(secs, [section |-> section, pages |-> << page >>])

\* One iteration of the parse loop
Discover(md_path) ==
    /\ pc = "parse"
    /\ GlobNext(md_path)
    /\ LET made == MakePage(md_path, content[md_path])
       IN  IF made.raised # ""
           THEN /\ pc' = "aborted"
                /\ UNCHANGED << pages, sections >>
           ELSE /\ pages' = Append(pages, made.page)
                /\ sections' = SetDefaultAppend(sections, made.page.section, made.page)
                /\ pc' = pc
    /\ scanned' = scanned \cup {md_path}
    /\ scanDir' = Parent(md_path)
    /\ UNCHANGED << aloneVars, content, templateExists, i, dist, writes, run, prevDist >>

\* The parse loop ends
DiscoverEnd ==
    /\ pc = "parse"
    /\ GlobExhausted
    /\ pc' = "emit"
    /\ i' = 1
    /\ UNCHANGED << aloneVars, content, templateExists, scanned, scanDir, pages, sections,
                    dist, writes, run, prevDist >>

\* One iteration of the "emit real pages" loop
EmitPage ==
    /\ pc = "emit"
    /\ i <= Len(pages)
    /\ LET page == pages[i]
           html == Render(page.title, page.description, page.content_html)
           out == page.output_dir \o << IndexHtml >>
       IN  /\ dist' = WriteFile(dist, out, html)
           /\ writes' = Logged(writes, out, Producer("page", page.source))
    /\ i' = i + 1
    /\ UNCHANGED << aloneVars, content, templateExists, pc, scanned, scanDir, pages, sections,
                    run, prevDist >>

\* The emit loop ends
EmitEnd ==
    /\ pc = "emit"
    /\ i > Len(pages)
    /\ pc' = "synth"
    /\ i' = 1
    /\ UNCHANGED << aloneVars, content, templateExists, scanned, scanDir, pages, sections,
                    dist, writes, run, prevDist >>

\* IndexExists, were the section left out of the path that is tested
IndexExistsAtRoot(section) == << IndexMd >> \in Files

\* index_md.exists() for CONTENT_DIR / section / "_index.md"
IndexExists(section) == (section \o << IndexMd >>) \in Files

\* "Only include real content pages"
IsChild(p) == Name(p.source) # IndexMd
Children(section_pages) == SelectSeq(section_pages, IsChild)

\* InsertByTitle, were the sort not stable: a page goes before the pages of
\* equal title that were discovered before it
RECURSIVE InsertBeforeEqual(_, _)
InsertBeforeEqual(p, s) ==
    IF s = <<>> THEN << p >>
    ELSE IF ~StrLess(Head(s).title.v, p.title.v)
         THEN << p >> \o s
         ELSE << Head(s) >> \o InsertBeforeEqual(p, Tail(s))

\* SortedByTitle, were the children listed as discovered
DiscoveryOrder(s) == s

\* sorted(children, key=lambda p: p.title): a stable sort by p.title under <
RECURSIVE InsertByTitle(_, _)
InsertByTitle(p, s) ==
    IF s = <<>> THEN << p >>
    ELSE IF StrLess(p.title.v, Head(s).title.v)
         THEN << p >> \o s
         ELSE << Head(s) >> \o InsertByTitle(p, Tail(s))

RECURSIVE SortedByTitle(_)
SortedByTitle(s) ==
    IF s = <<>> THEN <<>>
    ELSE InsertByTitle(s[Len(s)], SortedByTitle(SubSeq(s, 1, Len(s) - 1)))

\* < raises TypeError for None and between str and int; a list of one
\* page is sorted without a comparison
SortRaises(children) ==
    Len(children) >= 2 /\ \E k \in 1..Len(children) : ~IsStr(children[k].title)

\* '<li><a href="{p.url}">{p.title}</a></li>'
ListItem(p) == [href |-> p.url, text |-> Str(p.title)]

\* heading, list_items, synthetic_content and the rendered listing
Heading(section) == Title(ReplaceHyphens(Name(section)))

SyntheticHtml(section, children) ==
    LET heading == Heading(section)
        ordered == SortedByTitle(children)
        list_items == [k \in 1..Len(ordered) |-> ListItem(ordered[k])]
        synthetic_content == [kind |-> "listing", body |-> <<>>,
                              heading |-> heading, items |-> list_items]
    IN  Render(StrVal(heading),
               StrVal(<< "I", "n", "d", "e", "x", " ", "o", "f", " " >> \o heading),
               synthetic_content)

\* One iteration of the "emit synthetic section indexes" loop
SynthSection ==
    /\ pc = "synth"
    /\ i <= Len(sections)
    /\ LET section == sections[i].section
           section_pages == sections[i].pages
           output_file == section \o << IndexHtml >>
           children == Children(section_pages)
       IN  IF \/ section = <<>>
              \/ IndexExists(section)
              \/ children = <<>>
           THEN /\ i' = i + 1
                /\ UNCHANGED << pc, dist, writes >>
           ELSE IF SortRaises(children)
           THEN /\ pc' = "aborted"
                /\ UNCHANGED << i, dist, writes >>
           ELSE /\ dist' = WriteFile(dist, output_file, SyntheticHtml(section, children))
                /\ writes' = Logged(writes, output_file, Producer("synthetic", section))
                /\ i' = i + 1
                /\ pc' = pc
    /\ UNCHANGED << aloneVars, content, templateExists, scanned, scanDir, pages, sections,
                    run, prevDist >>

\* The synthetic loop ends: "Build complete."
SynthEnd ==
    /\ pc = "synth"
    /\ i > Len(sections)
    /\ pc' = "done"
    /\ UNCHANGED << aloneVars, content, templateExists, scanned, scanDir, pages, sections, i,
                    dist, writes, run, prevDist >>

\* The script is run a second time on the unchanged content tree: a new
\* process, the output tree of the first build still on disk
Rebuild ==
    /\ pc = "done"
    /\ run = 1
    /\ run' = 2
    /\ prevDist' = dist
    /\ pc' = "start"
    /\ scanned' = {}
    /\ scanDir' = <<>>
    /\ pages' = <<>>
    /\ sections' = <<>>
    /\ i' = 1
    /\ writes' = <<>>
    /\ UNCHANGED << aloneVars, content, templateExists, dist >>

Next ==
    \/ CleanOutput
    \/ \E f \in ContentPaths : ExampleWrite(f)
    \/ ExampleEnd
    \/ Setup
    \/ \E f \in ContentPaths : Discover(f)
    \/ DiscoverEnd
    \/ EmitPage
    \/ EmitEnd
    \/ SynthSection
    \/ SynthEnd
    \/ Rebuild

Spec == Init /\ [][Next]_vars

----------------------------------------------------------------------------
(* The router on its own: Route applied to one relative path *)

SeqsUpTo(S, n) == UNION { [1..k -> S] : k \in 0..n }

RouteDirNames == { Blog, MyDocs }
RouteFileNames == { IndexMd, BlogMd, PostOneMd, AMd, ABMd }

\* Every *.md path at most MaxDepth directories deep
RoutePaths ==
    { d \o << n >> : d \in SeqsUpTo(RouteDirNames, MaxDepth), n \in RouteFileNames }

IdleBuild ==
    /\ content = <<>>
    /\ templateExists = TRUE
    /\ pc = "idle"
    /\ scanned = {}
    /\ scanDir = <<>>
    /\ pages = <<>>
    /\ sections = <<>>
    /\ i = 1
    /\ dist = <<>>
    /\ writes = <<>>
    /\ run = 1
    /\ prevDist = <<>>

InitRoute ==
    /\ IdleBuild
    /\ rel \in RoutePaths
    /\ routed = <<>>
    /\ raw = <<>>
    /\ loaded = <<>>

\* The routing rules are applied to rel
RouteRel ==
    /\ routed = <<>>
    /\ rel # <<>>
    /\ routed' = << Route(rel) >>
    /\ UNCHANGED << buildVars, rel, raw, loaded >>

NextRoute == RouteRel

SpecRoute == InitRoute /\ [][NextRoute]_vars

----------------------------------------------------------------------------
(* The document loader on its own: one raw document is parsed and          *)
(* assembled into a Page                                                   *)

Tokens ==
    { Delim, Ws, Text, Bad,
      Entry("title", StrVal(<< "A" >>)), Entry("title", NoneVal),
      Entry("description", StrVal(<< "D" >>)), Entry("description", IntVal) }

\* The content file the raw document is read from
LoadPath == << Blog, PostOneMd >>

InitLoad ==
    /\ IdleBuild
    /\ rel = <<>>
    /\ routed = <<>>
    /\ raw \in SeqsUpTo(Tokens, MaxTokens)
    /\ loaded = <<>>

\* parse_markdown and Page(...) on raw
LoadRaw ==
    /\ loaded = <<>>
    /\ rel = <<>>
    /\ loaded' = << MakePage(LoadPath, raw) >>
    /\ UNCHANGED << buildVars, rel, routed, raw >>

NextLoad == LoadRaw

SpecLoad == InitLoad /\ [][NextLoad]_vars

----------------------------------------------------------------------------
(* Properties of the build *)

\* Every directory of the content tree, the root included
Dirs == UNION { { SubSeq(Parent(f), 1, k) : k \in 0..Len(Parent(f)) } : f \in Files }

\* Who wrote the output file at path in this build, the example loop aside
Writers(path) ==
    IF path \in DOMAIN writes
    THEN SelectSeq(writes[path], LAMBDA w : w.by # "example")
    ELSE <<>>

WrittenBy(path, by) ==
    \E k \in 1..Len(Writers(path)) : Writers(path)[k].by = by

\* A synthetic index has been written to <build root>/S/index.html
SyntheticAt(S) == WrittenBy(S \o << IndexHtml >>, "synthetic")

HasChildFile(S) == \E f \in Files : Parent(f) = S /\ Name(f) # IndexMd

\* C1: after a completed build a synthetic index has been written for a
\* section S exactly when S is not the root, S/_index.md does not exist and
\* some content file other than _index.md lies directly in S; and for the
\* root section none is written at any time.
C1_SyntheticIff ==
    /\ pc = "done" =>
         \A S \in Dirs :
            SyntheticAt(S) <=>
               (S # <<>> /\ (S \o << IndexMd >>) \notin Files /\ HasChildFile(S))
    /\ ~SyntheticAt(<<>>)

\* A completed build with a root leaf page and no root _index.md that
\* wrote a synthetic index for some section
C1_Witness ==
    /\ pc = "done"
    /\ << IndexMd >> \notin Files
    /\ HasChildFile(<<>>)
    /\ \E S \in Dirs : SyntheticAt(S)

\* The Page made from the content file f
PageOf(f) == pages[CHOOSE k \in 1..Len(pages) : pages[k].source = f]

\* C2: after a completed build, for every non-root section S with
\* S/_index.md, <build root>/S/index.html holds the rendering of that
\* page's title, description and body.
C2_RealIndexWins ==
    pc = "done" =>
       \A f \in Files :
          (Name(f) = IndexMd /\ Len(f) >= 2) =>
             LET out == Parent(f) \o << IndexHtml >>
                 p == PageOf(f)
             IN  /\ out \in DOMAIN dist
                 /\ dist[out] = [title |-> Str(p.title),
                                 description |-> Str(p.description),
                                 content |-> p.content_html]

\* A completed build of blog.md, blog/_index.md and a further page in blog/
C2_Witness ==
    /\ pc = "done"
    /\ << BlogMd >> \in Files
    /\ << Blog, IndexMd >> \in Files
    /\ HasChildFile(<< Blog >>)

\* C3 (as claimed): the Pages of the discovery pass have pairwise distinct URLs.
C3_UrlsDistinct ==
    \A a, b \in 1..Len(pages) : a # b => pages[a].url # pages[b].url

\* a <= b for str, stated by the first place where a and b differ
Precedes(a, b) ==
    \E n \in 0..Len(a) :
       /\ n <= Len(b)
       /\ \A k \in 1..n : a[k] = b[k]
       /\ \/ n = Len(a)
          \/ n < Len(b) /\ Ord(a[n + 1]) < Ord(b[n + 1])

\* t is s with hyphens replaced by spaces and every word title-cased
IsTitleCased(t, s) ==
    /\ Len(t) = Len(s)
    /\ \A k \in 1..Len(s) :
          t[k] = IF s[k] = "-" THEN " "
                 ELSE IF ~IsCased(s[k]) THEN s[k]
                 ELSE IF k > 1 /\ IsCased(s[k - 1]) THEN ToLower(s[k])
                 ELSE ToUpper(s[k])

\* The positions in pages of the Pages directly in section S that are not
\* its _index.md
ChildPositions(S) ==
    { k \in 1..Len(pages) :
         Parent(pages[k].source) = S /\ Name(pages[k].source) # IndexMd }

\* The listing at <build root>/S/index.html links exactly the children of
\* S, once each, by URL and title, ordered by title with equal titles in
\* discovery order, under the title-cased name of S
ListingCorrect(S) ==
    LET doc == dist[S \o << IndexHtml >>]
        items == doc.content.items
        kids == ChildPositions(S)
        at(j) == CHOOSE k \in kids : pages[k].url = items[j].href
    IN  /\ doc.content.kind = "listing"
        /\ Len(items) = Cardinality(kids)
        /\ \A j \in 1..Len(items) :
              \E k \in kids : /\ pages[k].url = items[j].href
                              /\ Str(pages[k].title) = items[j].text
        /\ \A k \in kids :
              Cardinality({ j \in 1..Len(items) : items[j].href = pages[k].url }) = 1
        /\ \A j1, j2 \in 1..Len(items) :
              j1 < j2 =>
                 /\ Precedes(items[j1].text, items[j2].text)
                 /\ items[j1].text = items[j2].text => at(j1) < at(j2)
        /\ IsTitleCased(doc.title, Name(S))
        /\ doc.content.heading = doc.title

\* C4: once the synthetic phase has written the index of a section S, its
\* listing has exactly one link per Page directly in S other than _index.md,
\* each with that page's URL and title, sorted by title ascending with equal
\* titles in discovery order, and its title is the last component of S with
\* hyphens replaced by spaces, title-cased.
C4_ListingCorrect ==
    pc \in { "synth", "done" } =>
       \A S \in Dirs : SyntheticAt(S) => ListingCorrect(S)

\* A synthetic index that lists two pages of equal title, in a tree that
\* has a page outside the listed section
C4_Witness ==
    /\ pc = "done"
    /\ \E S \in Dirs :
          /\ SyntheticAt(S)
          /\ LET items == dist[S \o << IndexHtml >>].content.items
             IN  Len(items) >= 2 /\ items[1].text = items[2].text
          /\ \E f \in Files : Parent(f) # S

\* C7 (as claimed): the second build of an unchanged content tree leaves
\* the output tree the first build left, whatever order each run's
\* traversal discovered the files in.
C7_SameOutputAnyOrder ==
    (run = 2 /\ pc = "done") => dist = prevDist

\* No section that gets a synthetic index lists two pages of equal title
NoTitleTies ==
    \A a, b \in 1..Len(pages) :
       (/\ a # b
        /\ pages[a].section = pages[b].section
        /\ pages[a].section # <<>>
        /\ ~IndexExists(pages[a].section)
        /\ IsChild(pages[a])
        /\ IsChild(pages[b]))
       => pages[a].title # pages[b].title

\* C7 (amended): the second build of an unchanged content tree leaves the
\* output tree the first build left, whatever the discovery orders, when no
\* synthetic index lists two pages of equal title.
C7_SameOutputNoTies ==
    (run = 2 /\ pc = "done" /\ NoTitleTies) => dist = prevDist

\* A second build completed whose output has a synthetic index of two or
\* more pages, all titles different
C7_Witness ==
    /\ run = 2
    /\ pc = "done"
    /\ NoTitleTies
    /\ \E S \in Dirs :
          SyntheticAt(S) /\ Len(dist[S \o << IndexHtml >>].content.items) >= 2

\* Every content file has its Page, and every Page is in its section's list
DiscoveryComplete ==
    /\ { pages[k].source : k \in 1..Len(pages) } = Files
    /\ \A k \in 1..Len(pages) :
          \E n \in 1..Len(sections) :
             /\ sections[n].section = Parent(pages[k].source)
             /\ \E m \in 1..Len(sections[n].pages) : sections[n].pages[m] = pages[k]

AnyWrite(by) == \E path \in DOMAIN writes : WrittenBy(path, by)

AllPagesWritten ==
    \A k \in 1..Len(pages) :
       \E m \in 1..Len(Writers(pages[k].output_dir \o << IndexHtml >>)) :
          Writers(pages[k].output_dir \o << IndexHtml >>)[m]
             = Producer("page", pages[k].source)

\* A step of a write phase leaves pages and sections alone
WritePhasesOnlyRead ==
    (pc = "emit" \/ pc = "synth") => (pages' = pages /\ sections' = sections)

\* C8: no real page is written before discovery has produced every Page
\* and the whole Section Index; no synthetic index is written before every
\* real page has been written; and the write phases leave pages and
\* sections as discovery left them.
C8_PhasesOrdered ==
    /\ [](AnyWrite("page") => DiscoveryComplete)
    /\ [](AnyWrite("synthetic") => AllPagesWritten)
    /\ [][WritePhasesOnlyRead]_vars

\* A completed build that wrote two or more real pages and a synthetic index
C8_Witness ==
    /\ pc = "done"
    /\ Len(pages) >= 2
    /\ AnyWrite("page")
    /\ AnyWrite("synthetic")

\* C9 (as claimed): when the build ends in a template lookup failure, no
\* output file under the build root has been written before the failure.
C9_NoWriteBeforeTemplateFailure ==
    pc = "template_failed" => DOMAIN writes = {}

\* C10 (as claimed): every output file is written by at most one producer
\* in a build; in particular a synthetic index never writes where a real
\* page has written.
C10_OneProducerPerFile ==
    \A path \in DOMAIN writes :
       /\ Len(Writers(path)) <= 1
       /\ ~(WrittenBy(path, "page") /\ WrittenBy(path, "synthetic"))

----------------------------------------------------------------------------
(* Properties of the router *)

\* The components of a URL: the texts between its slashes
RECURSIVE UrlParts(_, _)
UrlParts(url, acc) ==
    IF url = <<>> THEN (IF acc = <<>> THEN <<>> ELSE << acc >>)
    ELSE IF Head(url) = "/"
         THEN (IF acc = <<>> THEN <<>> ELSE << acc >>) \o UrlParts(Tail(url), <<>>)
         ELSE UrlParts(Tail(url), Append(acc, Head(url)))

\* p without the ".md" its name ends with
WithoutMd(p) == Parent(p) \o << SubSeq(Name(p), 1, Len(Name(p)) - Len(DotMd)) >>

Slashed(p) == << "/" >> \o JoinNames(p) \o << "/" >>

----------------------------------------------------------------------------
(* Properties of the document loader *)

\* C6 (as claimed): whatever the metadata block of a content file is,
\* discovery does not abort and the Page has a non-null title and a string
\* description.
C6_LoaderNeverFails ==
    loaded # <<>> =>
       /\ loaded[1].raised = ""
       /\ loaded[1].page.title # NoneVal
       /\ IsStr(loaded[1].page.description)

====
